---- MODULE Spec2Model ----
(***************************************************************************)
(* Travel-recommendation agent (LangGraph, single node process_message).   *)
(* The model follows src/agent/graph.py: the State dataclass, the catalog  *)
(* VOYAGES, the text classifiers, match_voyage and process_message; _match *)
(* is the matcher of src/src/agent/graph.py and test_matching the harness  *)
(* of src/agent/test_matching_script.py.                                   *)
(*                                                                         *)
(* Python values: True/False/None are the strings PyTrue/PyFalse/None (a   *)
(* criterion is Optional[bool]); a str is a sequence of one-character      *)
(* strings, so that substring tests, len() and indexing are computed.      *)
(***************************************************************************)
EXTENDS Integers, Sequences, FiniteSets, TLC

VARIABLES
    state,          \* the State object handed to process_message
    VOYAGES,        \* the module-level catalog list
    pc,             \* caller position: "idle" (turn returned) or "ready" (input built)
    turns,          \* number of turns started in this conversation
    branch,         \* branch taken by the last process_message call
    trace,          \* calls and checks made by the last process_message call, in order
    ia_writes,      \* assignments to state.dernier_message_ia in the last call
    raised,         \* TRUE iff the last call ended by an exception leaving process_message
    gen_prompt,     \* prompt of the last generation call of the last process_message call
    extracted,      \* answer of the extraction collaborator in the last call
    test_criteres,  \* test_matching: the criteres argument
    test_matches,   \* test_matching: the returned list
    test_pc,        \* position of the harness: "off", "start"/"done", "classify"/"classified"
    test_message,   \* classifier harness: the message argument
    test_tag        \* classifier harness: the value detect_question_info returned

vars == <<state, VOYAGES, pc, turns, branch, trace, ia_writes, raised, gen_prompt,
          extracted,
          test_criteres, test_matches, test_pc, test_message, test_tag>>

-----------------------------------------------------------------------------
(* Bounds *)

MaxTurns == 3        \* turns per conversation
MaxWords == 2        \* words per message handed to the question classifier

-----------------------------------------------------------------------------
(* Python values *)

PyTrue == "True"
PyFalse == "False"
None == "None"
PyBool == {PyTrue, PyFalse}
TriState == {PyTrue, PyFalse, None}

is_voyelle(c) == c \in {"a", "e", "i", "o", "u", "y"}

\* sum(1 for c in s if c in 'aeiouy')
RECURSIVE count_voyelles(_)
count_voyelles(s) ==
    IF s = <<>> THEN 0
    ELSE (IF is_voyelle(Head(s)) THEN 1 ELSE 0) + count_voyelles(Tail(s))

-----------------------------------------------------------------------------
(* str helpers: lower(), strip(), the "in" operator on strings *)

UpperChars == <<"A","B","C","D","E","F","G","H","I","J","K","L","M",
                "N","O","P","Q","R","S","T","U","V","W","X","Y","Z","É","À">>
LowerChars == <<"a","b","c","d","e","f","g","h","i","j","k","l","m",
                "n","o","p","q","r","s","t","u","v","w","x","y","z","é","à">>

lower_char(c) ==
    IF \E i \in 1..Len(UpperChars) : UpperChars[i] = c
    THEN LowerChars[CHOOSE i \in 1..Len(UpperChars) : UpperChars[i] = c]
    ELSE c

lower(s) == [i \in 1..Len(s) |-> lower_char(s[i])]

Whitespace == {" "}

RECURSIVE lstrip(_)
lstrip(s) == IF s # <<>> /\ Head(s) \in Whitespace THEN lstrip(Tail(s)) ELSE s

RECURSIVE rstrip(_)
rstrip(s) ==
    IF s # <<>> /\ s[Len(s)] \in Whitespace
    THEN rstrip(SubSeq(s, 1, Len(s) - 1)) ELSE s

strip(s) == rstrip(lstrip(s))

\* sub in s
str_in(sub, s) ==
    \E i \in 1..(Len(s) - Len(sub) + 1) : SubSeq(s, i, i + Len(sub) - 1) = sub

\* any(mot in s for mot in mots)
any_in(mots, s) == \E j \in 1..Len(mots) : str_in(mots[j], s)

\* c.isalpha() on the characters of the alphabet used
isalpha(c) == \E i \in 1..Len(LowerChars) : LowerChars[i] = c \/ UpperChars[i] = c
              \/ c \in {"û", "è", "ô", "î", "ç"}

-----------------------------------------------------------------------------
(* Keyword lists *)

salutations ==
    << <<"b", "o", "n", "j", "o", "u", "r">>,
       <<"s", "a", "l", "u", "t">>,
       <<"h", "e", "l", "l", "o">>,
       <<"b", "o", "n", "s", "o", "i", "r">>,
       <<"c", "o", "u", "c", "o", "u">>,
       <<"h", "e", "y">>,
       <<"b", "o", "n", "n", "e", " ", "j", "o", "u", "r", "n", "é", "e">>,
       <<"a", "u", " ", "r", "e", "v", "o", "i", "r">>,
       <<"b", "y", "e">>,
       <<"à", " ", "b", "i", "e", "n", "t", "ô", "t">>,
       <<"m", "e", "r", "c", "i">>,
       <<"s", "'", "i", "l", " ", "v", "o", "u", "s", " ", "p", "l", "a", "î", "t">>,
       <<"s", "v", "p">>,
       <<"s", "t", "p">> >>

mots_prix ==
    << <<"p", "r", "i", "x">>,
       <<"c", "o", "û", "t">>,
       <<"c", "o", "u", "t">>,
       <<"t", "a", "r", "i", "f">>,
       <<"b", "u", "d", "g", "e", "t">>,
       <<"c", "o", "m", "b", "i", "e", "n">>,
       <<"c", "h", "e", "r">>,
       <<"€">>,
       <<"e", "u", "r", "o">>,
       <<"p", "a", "y", "e", "r">>,
       <<"c", "o", "u", "t", "e">>,
       <<"v", "a", "l", "e", "u", "r">>,
       <<"q", "u", "e", "l", " ", "p", "r", "i", "x">>,
       <<"q", "u", "e", "l", "s", " ", "p", "r", "i", "x">>,
       <<"l", "e", " ", "p", "r", "i", "x">>,
       <<"l", "e", "s", " ", "p", "r", "i", "x">> >>

mots_date ==
    << <<"q", "u", "a", "n", "d">>,
       <<"d", "a", "t", "e">>,
       <<"p", "é", "r", "i", "o", "d", "e">>,
       <<"s", "a", "i", "s", "o", "n">>,
       <<"m", "o", "i", "s">>,
       <<"d", "i", "s", "p", "o", "n", "i", "b", "l", "e">>,
       <<"d", "i", "s", "p", "o", "n", "i", "b", "i", "l", "i", "t", "é">>,
       <<"p", "a", "r", "t", "i", "r", " ", "q", "u", "a", "n", "d">> >>

mots_reservation ==
    << <<"r", "é", "s", "e", "r", "v", "e", "r">>,
       <<"r", "é", "s", "e", "r", "v", "a", "t", "i", "o", "n">>,
       <<"c", "o", "m", "m", "e", "n", "t", " ", "f", "a", "i", "r", "e">>,
       <<"p", "r", "o", "c", "é", "d", "u", "r", "e">>,
       <<"i", "n", "s", "c", "r", "i", "p", "t", "i", "o", "n">>,
       <<"b", "o", "o", "k", "i", "n", "g">>,
       <<"c", "o", "m", "m", "a", "n", "d", "e", "r">> >>

mots_info ==
    << <<"i", "n", "f", "o">>,
       <<"i", "n", "f", "o", "r", "m", "a", "t", "i", "o", "n">>,
       <<"d", "é", "t", "a", "i", "l">>,
       <<"p", "r", "é", "c", "i", "s", "i", "o", "n">>,
       <<"s", "a", "v", "o", "i", "r", " ", "p", "l", "u", "s">>,
       <<"r", "e", "n", "s", "e", "i", "g", "n", "e", "r">>,
       <<"r", "e", "n", "s", "e", "i", "g", "n", "e", "m", "e", "n", "t">> >>

mots_voyage ==
    << <<"v", "o", "y", "a", "g", "e">>,
       <<"v", "a", "c", "a", "n", "c", "e", "s">>,
       <<"s", "é", "j", "o", "u", "r">>,
       <<"p", "a", "r", "t", "i", "r">>,
       <<"d", "e", "s", "t", "i", "n", "a", "t", "i", "o", "n">>,
       <<"w", "e", "e", "k", "-", "e", "n", "d">>,
       <<"w", "e", "e", "k", "e", "n", "d">>,
       <<"p", "l", "a", "g", "e">>,
       <<"m", "e", "r">>,
       <<"m", "o", "n", "t", "a", "g", "n", "e">>,
       <<"v", "i", "l", "l", "e">>,
       <<"c", "a", "m", "p", "a", "g", "n", "e">>,
       <<"n", "a", "t", "u", "r", "e">>,
       <<"s", "k", "i">>,
       <<"s", "p", "o", "r", "t">>,
       <<"d", "é", "t", "e", "n", "t", "e">>,
       <<"r", "e", "p", "o", "s">>,
       <<"s", "p", "a">>,
       <<"h", "o", "t", "e", "l">>,
       <<"h", "ô", "t", "e", "l">>,
       <<"c", "a", "m", "p", "i", "n", "g">>,
       <<"r", "a", "n", "d", "o", "n", "n", "é", "e">>,
       <<"s", "o", "l", "e", "i", "l">>,
       <<"d", "é", "c", "o", "u", "v", "r", "i", "r">>,
       <<"v", "i", "s", "i", "t", "e", "r">>,
       <<"e", "x", "p", "l", "o", "r", "e", "r">>,
       <<"t", "o", "u", "r", "i", "s", "m", "e">>,
       <<"e", "s", "c", "a", "p", "a", "d", "e">> >>


(* Messages *)

MsgVide == <<>>  \* ""
MsgBonjour == <<"B", "o", "n", "j", "o", "u", "r", " ", "!">>  \* "Bonjour !"
MsgOui == <<"o", "u", "i">>  \* "oui"
MsgQuelPrix == <<"Q", "u", "e", "l", " ", "p", "r", "i", "x", " ", "?">>  \* "Quel prix ?"
MsgCharabia == <<"s", "r", "r", "r", "r", "z", "z", "z", "h", "d", "j">>  \* "srrrrzzzhdj"
MsgPlageDetente == <<"J", "e", " ", "v", "e", "u", "x", " ", "l", "a", " ", "p", "l", "a", "g", "e", " ", "e", "t", " ", "m", "e", " ", "d", "é", "t", "e", "n", "d", "r", "e">>  \* "Je veux la plage et me détendre"
MsgReserver == <<"c", "o", "m", "m", "e", "n", "t", " ", "r", "é", "s", "e", "r", "v", "e", "r", " ", "?">>  \* "comment réserver ?"
MsgMerciPrix == <<"m", "e", "r", "c", "i", ",", " ", "q", "u", "e", "l", " ", "p", "r", "i", "x", " ", "?">>  \* "merci, quel prix ?"
MsgSvp == <<"s", "v", "p", "!">>  \* "svp!"
MsgPrix == <<"p", "r", "i", "x">>  \* "prix"

-----------------------------------------------------------------------------
(* Text classifiers *)

detect_salutation(message) ==
    LET message_lower == strip(lower(message))
    IN  Len(message_lower) < 30 /\ any_in(salutations, message_lower)

\* mutant: the date keywords are tested before the price keywords
detect_question_info_date_first(message) ==
    LET message_lower == strip(lower(message))
    IN  IF any_in(mots_date, message_lower) THEN "date"
        ELSE IF any_in(mots_prix, message_lower) THEN "prix"
        ELSE IF any_in(mots_reservation, message_lower) THEN "reservation"
        ELSE IF any_in(mots_info, message_lower) THEN "info"
        ELSE ""

detect_question_info(message) ==
    LET message_lower == strip(lower(message))
    IN  IF any_in(mots_prix, message_lower) THEN "prix"
        ELSE IF any_in(mots_date, message_lower) THEN "date"
        ELSE IF any_in(mots_reservation, message_lower) THEN "reservation"
        ELSE IF any_in(mots_info, message_lower) THEN "info"
        ELSE ""

\* voyelles < len * 0.2 : exact in integers for every length below 200
detect_hors_contexte(message) ==
    LET message_lower == strip(lower(message))
        n == Len(message_lower)
        voyelles == count_voyelles(message_lower)
    IN  IF n > 5 /\ voyelles * 5 < n THEN TRUE
        ELSE IF \E i \in 1..(n - 2) :
                    /\ message_lower[i] = message_lower[i + 1]
                    /\ message_lower[i + 1] = message_lower[i + 2]
                    /\ message_lower[i] \notin {"e", "l", "o"}
             THEN TRUE
        ELSE IF n < 15 /\ ~any_in(mots_voyage, message_lower)
             THEN IF ~(\E i \in 1..n : isalpha(message_lower[i])) THEN TRUE
                  ELSE n > 3 /\ voyelles < 2
        ELSE FALSE

-----------------------------------------------------------------------------
(* Catalog and criteria *)

CritereKeys == <<"plage", "montagne", "ville", "sport", "detente", "acces_handicap">>
CritereSet == {CritereKeys[i] : i \in 1..Len(CritereKeys)}

Voyage(id, plage, montagne, ville, sport, detente, acces, prix, periode) ==
    [id |-> id, plage |-> plage, montagne |-> montagne, ville |-> ville,
     sport |-> sport, detente |-> detente, acces_handicap |-> acces,
     prix_indicatif |-> prix, meilleure_periode |-> periode]

VOYAGES_INIT ==
    << Voyage("LOZ-001",  PyFalse, PyTrue,  PyFalse, PyTrue,  PyFalse, PyFalse,
              "450€/semaine", "Mai-Septembre"),
       Voyage("CHAM-SPA", PyFalse, PyTrue,  PyFalse, PyFalse, PyTrue,  PyTrue,
              "2500€/semaine", "Toute l'année"),
       Voyage("CHAM-SKI", PyFalse, PyTrue,  PyFalse, PyTrue,  PyFalse, PyTrue,
              "3000€/semaine", "Décembre-Avril"),
       Voyage("PAL-001",  PyTrue,  PyFalse, PyTrue,  PyFalse, PyTrue,  PyTrue,
              "800€/semaine", "Mai-Octobre"),
       Voyage("CAMP-LUX", PyFalse, PyFalse, PyFalse, PyFalse, PyTrue,  PyFalse,
              "1800€/semaine", "Avril-Octobre") >>

\* default_factory of State.criteres
criteres_default == [k \in CritereSet |-> None]

\* keys of a criteria dict in iteration (insertion) order
dict_keys(d) == SelectSeq(CritereKeys, LAMBDA k : k \in DOMAIN d)

RECURSIVE match_loop(_, _, _)
match_loop(voyage, criteres, i) ==
    LET keys == dict_keys(criteres)
    IN  IF i > Len(keys) THEN TRUE
        ELSE LET critere == keys[i]
                 valeur_souhaitee == criteres[critere]
             IN  IF valeur_souhaitee = None THEN match_loop(voyage, criteres, i + 1)
                 ELSE IF /\ critere \in DOMAIN voyage
                         /\ valeur_souhaitee \in PyBool
                         /\ voyage[critere] # valeur_souhaitee
                      THEN FALSE
                 ELSE match_loop(voyage, criteres, i + 1)

\* mutant: "if not valeur_souhaitee: continue", a False criterion is skipped like None
RECURSIVE match_loop_falsy(_, _, _)
match_loop_falsy(voyage, criteres, i) ==
    LET keys == dict_keys(criteres)
    IN  IF i > Len(keys) THEN TRUE
        ELSE IF criteres[keys[i]] # PyTrue THEN match_loop_falsy(voyage, criteres, i + 1)
        ELSE IF keys[i] \in DOMAIN voyage /\ voyage[keys[i]] # PyTrue THEN FALSE
        ELSE match_loop_falsy(voyage, criteres, i + 1)

match_voyage_falsy(voyage, criteres) == match_loop_falsy(voyage, criteres, 1)

\* mutant: the "is None: continue" test is missing, None is compared like a value
RECURSIVE match_loop_none(_, _, _)
match_loop_none(voyage, criteres, i) ==
    LET keys == dict_keys(criteres)
    IN  IF i > Len(keys) THEN TRUE
        ELSE IF keys[i] \in DOMAIN voyage /\ voyage[keys[i]] # criteres[keys[i]] THEN FALSE
        ELSE match_loop_none(voyage, criteres, i + 1)

match_voyage_none_constrains(voyage, criteres) == match_loop_none(voyage, criteres, 1)

match_voyage(voyage, criteres) == match_loop(voyage, criteres, 1)

\* src/src/agent/graph.py: the same loop under the name _match
RECURSIVE _match_loop(_, _, _)
_match_loop(v, c, i) ==
    LET keys == dict_keys(c)
    IN  IF i > Len(keys) THEN TRUE
        ELSE LET k == keys[i]
                 want == c[k]
             IN  IF want = None THEN _match_loop(v, c, i + 1)
                 ELSE IF k \in DOMAIN v /\ want \in PyBool /\ v[k] # want THEN FALSE
                 ELSE _match_loop(v, c, i + 1)

_match(v, c) == _match_loop(v, c, 1)

\* for voyage in VOYAGES: if match_voyage(voyage, criteres): append
RECURSIVE search_loop(_, _, _)
search_loop(catalog, criteres, i) ==
    IF i > Len(catalog) THEN <<>>
    ELSE (IF match_voyage(catalog[i], criteres) THEN <<catalog[i]>> ELSE <<>>)
         \o search_loop(catalog, criteres, i + 1)

\* mutant: the loop breaks at the first match
search_first_match(catalog, criteres) ==
    LET all == search_loop(catalog, criteres, 1)
    IN  IF all = <<>> THEN <<>> ELSE <<all[1]>>

search_voyages(catalog, criteres) == search_loop(catalog, criteres, 1)

-----------------------------------------------------------------------------
(* State dataclass *)

Reply(kind, voyages) == [kind |-> kind, voyages |-> voyages]

Messages ==
    {MsgVide, MsgBonjour, MsgOui, MsgQuelPrix, MsgCharabia, MsgPlageDetente,
     MsgReserver, MsgMerciPrix, MsgSvp, MsgPrix}

StateDefault ==
    [dernier_message_utilisateur |-> <<>>,
     dernier_message_ia          |-> Reply("", <<>>),
     injection                   |-> FALSE,
     erreur_ia                   |-> FALSE,
     done                        |-> FALSE,
     criteres                    |-> criteres_default,
     voyages_proposes            |-> <<>>,
     derniers_voyages_proposes   |-> <<>>,
     metadata                    |-> {"timestamp", "version", "model"}]

\* module-level prompt templates that exist in graph.py
PROMPTS ==
    {"PROMPT_EXTRACTION_CRITERES", "PROMPT_REPONSE_AVEC_VOYAGES",
     "PROMPT_REPONSE_SANS_VOYAGES", "PROMPT_SALUTATION",
     "PROMPT_INFORMATION_PRATIQUE", "PROMPT_INCOMPREHENSIBLE"}

\* fields of the pydantic schema Criteres
Criteres_fields == CritereSet

NoPrompt == [name |-> "", voyages |-> <<>>]

\* the classifiers on the messages of the model, evaluated once
is_salutation == [m \in Messages |-> detect_salutation(m)]
question_info_of == [m \in Messages |-> detect_question_info(m)]
is_hors_contexte == [m \in Messages |-> detect_hors_contexte(m)]

-----------------------------------------------------------------------------
(* process_message, phase by phase.  t is the running call: the State      *)
(* object being mutated, the branch, the trace of calls, the number of     *)
(* replies written, the last generation prompt and the extraction answer.  *)

Log(t, e) == [t EXCEPT !.trace = Append(@, e)]

set_message_ia(t, r) ==
    [t EXCEPT !.state.dernier_message_ia = r, !.ia_writes = @ + 1]

\* mutant: returning from a turn clears the error flag
finish_clears_flag(t, b) ==
    [t EXCEPT !.state.done = TRUE, !.branch = b, !.state.erreur_ia = FALSE]

finish(t, b) == [t EXCEPT !.state.done = TRUE, !.branch = b]

ids(voyages) == [i \in 1..Len(voyages) |-> voyages[i].id]

first3(voyages) == SubSeq(voyages, 1, IF Len(voyages) < 3 THEN Len(voyages) ELSE 3)

any_critere(criteres) == \E k \in DOMAIN criteres : criteres[k] # None

\* mutant: the failure exit returns without setting done
init_failure_no_done(t) ==
    [set_message_ia([t EXCEPT !.state.erreur_ia = TRUE], Reply("erreur_technique", <<>>))
        EXCEPT !.branch = "init_failure"]

\* mutant: the failure exit replies without raising the error flag
init_failure_without_flag(t) ==
    finish(set_message_ia(t, Reply("erreur_technique", <<>>)), "init_failure")

\* PHASE 1 failure exit (except branch of the init try)
init_failure(t) ==
    finish(set_message_ia([t EXCEPT !.state.erreur_ia = TRUE],
                          Reply("erreur_technique", <<>>)),
           "init_failure")

\* mutant: a greeting starts the conversation over, dropping the current proposals
salutation_drops_proposals(t, generation_ok) ==
    LET t1 == [t EXCEPT !.gen_prompt = [name |-> "PROMPT_SALUTATION", voyages |-> <<>>],
                        !.state.voyages_proposes = <<>>]
    IN  IF generation_ok
        THEN finish(set_message_ia(Log(t1, "ainvoke:salutation:ok"),
                                   Reply("llm:salutation", <<>>)), "salutation")
        ELSE finish(set_message_ia(Log(t1, "ainvoke:salutation:fail"),
                                   Reply("secours:salutation", <<>>)), "salutation")

\* PHASE 2 body
salutation(t, generation_ok) ==
    LET t1 == [t EXCEPT !.gen_prompt = [name |-> "PROMPT_SALUTATION", voyages |-> <<>>]]
    IN  IF generation_ok
        THEN finish(set_message_ia(Log(t1, "ainvoke:salutation:ok"),
                                   Reply("llm:salutation", <<>>)), "salutation")
        ELSE finish(set_message_ia(Log(t1, "ainvoke:salutation:fail"),
                                   Reply("secours:salutation", <<>>)), "salutation")

\* mutant: the catalog search runs whenever a criterion is known
question_info_always_search(t, question_type) ==
    LET s == t.state
        held == IF s.voyages_proposes # <<>> THEN s.voyages_proposes
                ELSE s.derniers_voyages_proposes
        search == any_critere(s.criteres)
        voyages_a_considerer ==
            IF search THEN search_voyages(VOYAGES, s.criteres) ELSE held
        t1 == IF search THEN Log(t, "match_voyage") ELSE t
        r == IF voyages_a_considerer # <<>>
             THEN Reply(question_type, ids(first3(voyages_a_considerer)))
             ELSE Reply("info:sans_voyage", <<>>)
    IN  finish(set_message_ia(t1, r), "question_info")

\* mutant: the practical-question branch stores the offers it searched as proposals
question_info_stores_search(t, question_type) ==
    LET s == t.state
        held == IF s.voyages_proposes # <<>> THEN s.voyages_proposes
                ELSE s.derniers_voyages_proposes
        search == held = <<>> /\ any_critere(s.criteres)
        voyages_a_considerer ==
            IF search THEN search_voyages(VOYAGES, s.criteres) ELSE held
        t1 == IF search THEN Log(t, "match_voyage") ELSE t
        r == IF voyages_a_considerer # <<>>
             THEN IF question_type = "prix"
                  THEN Reply("prix", ids(first3(voyages_a_considerer)))
                  ELSE IF question_type = "date"
                  THEN Reply("date", ids(first3(voyages_a_considerer)))
                  ELSE IF question_type = "reservation"
                  THEN Reply("reservation", <<>>)
                  ELSE Reply("contact", <<>>)
             ELSE IF question_type = "prix"
                  THEN Reply("prix:sans_voyage", <<>>)
                  ELSE Reply("info:sans_voyage", <<>>)
    IN  finish(set_message_ia([t1 EXCEPT !.state.voyages_proposes = voyages_a_considerer],
                              r), "question_info")

\* PHASE 2.3 body
question_info(t, question_type) ==
    LET s == t.state
        held == IF s.voyages_proposes # <<>> THEN s.voyages_proposes
                ELSE s.derniers_voyages_proposes
        search == held = <<>> /\ any_critere(s.criteres)
        voyages_a_considerer ==
            IF search THEN search_voyages(VOYAGES, s.criteres) ELSE held
        t1 == IF search THEN Log(t, "match_voyage") ELSE t
        r == IF voyages_a_considerer # <<>>
             THEN IF question_type = "prix"
                  THEN Reply("prix", ids(first3(voyages_a_considerer)))
                  ELSE IF question_type = "date"
                  THEN Reply("date", ids(first3(voyages_a_considerer)))
                  ELSE IF question_type = "reservation"
                  THEN Reply("reservation", <<>>)
                  ELSE Reply("contact", <<>>)
             ELSE IF question_type = "prix"
                  THEN Reply("prix:sans_voyage", <<>>)
                  ELSE Reply("info:sans_voyage", <<>>)
    IN  finish(set_message_ia(t1, r), "question_info")

\* mutant: the off-topic exit puts the criteria back to their defaults
hors_contexte_reset(t) ==
    finish(set_message_ia([t EXCEPT !.state.criteres = criteres_default],
                          Reply("hors_contexte", <<>>)), "hors_contexte")

\* PHASE 2.5 body
hors_contexte(t) ==
    finish(set_message_ia(t, Reply("hors_contexte", <<>>)), "hors_contexte")

\* mutant: the map is rebuilt from the answer, nothing is kept from the prior map
apply_extraction_reset(criteres, criteres_response) ==
    [k \in DOMAIN criteres |->
        IF k \in DOMAIN criteres_response THEN criteres_response[k] ELSE None]

\* mutant: the accessibility answer is stored under another key
apply_extraction_wrong_key(criteres, criteres_response) ==
    LET set == {k \in DOMAIN criteres_response : criteres_response[k] # None}
        keys == {IF k = "acces_handicap" THEN "accessibilite" ELSE k : k \in set}
    IN  [k \in (DOMAIN criteres) \cup keys |->
            IF k = "accessibilite" THEN criteres_response["acces_handicap"]
            ELSE IF k \in set THEN criteres_response[k] ELSE criteres[k]]

\* mutant: every value of the answer is copied, None included
apply_extraction_copies_none(criteres, criteres_response) ==
    [k \in (DOMAIN criteres) \cup (DOMAIN criteres_response) |->
        IF k \in DOMAIN criteres_response THEN criteres_response[k] ELSE criteres[k]]

\* for key, value in criteres_response.dict().items(): if value is not None: ...
apply_extraction(criteres, criteres_response) ==
    LET set == {k \in DOMAIN criteres_response : criteres_response[k] # None}
    IN  [k \in (DOMAIN criteres) \cup set |->
            IF k \in set THEN criteres_response[k] ELSE criteres[k]]

\* mutant: a failed extraction call puts the criteria back to their defaults
extraction_failure_resets(t, ex) ==
    LET message == t.state.dernier_message_utilisateur
        t0 == Log(t, "detect_hors_contexte")
    IN  IF message # <<>> /\ ~is_hors_contexte[message]
        THEN IF ex.ok
             THEN [t |-> [(IF any_critere(ex.criteres_response)
                           THEN Log(Log(t0, "ainvoke:extraction:ok"), "set:criteres")
                           ELSE Log(t0, "ainvoke:extraction:ok")) EXCEPT
                            !.state.criteres = apply_extraction(@, ex.criteres_response),
                            !.extracted = ex.criteres_response],
                   criteres_extraits |-> any_critere(ex.criteres_response)]
             ELSE [t |-> [Log(Log(t0, "ainvoke:extraction:fail"), "set:erreur_ia") EXCEPT
                            !.state.erreur_ia = TRUE,
                            !.state.criteres = criteres_default],
                   criteres_extraits |-> FALSE]
        ELSE [t |-> t0, criteres_extraits |-> FALSE]

\* PHASE 3: returns the running call and the local criteres_extraits; the
\* assignments to state.criteres and state.erreur_ia are logged where they occur
extraction(t, ex) ==
    LET message == t.state.dernier_message_utilisateur
        t0 == Log(t, "detect_hors_contexte")
    IN  IF message # <<>> /\ ~is_hors_contexte[message]
        THEN IF ex.ok
             THEN [t |-> [(IF any_critere(ex.criteres_response)
                           THEN Log(Log(t0, "ainvoke:extraction:ok"), "set:criteres")
                           ELSE Log(t0, "ainvoke:extraction:ok")) EXCEPT
                            !.state.criteres = apply_extraction(@, ex.criteres_response),
                            !.extracted = ex.criteres_response],
                   criteres_extraits |-> any_critere(ex.criteres_response)]
             ELSE [t |-> [Log(Log(t0, "ainvoke:extraction:fail"), "set:erreur_ia") EXCEPT
                            !.state.erreur_ia = TRUE],
                   criteres_extraits |-> FALSE]
        ELSE [t |-> t0, criteres_extraits |-> FALSE]

\* PHASE 4 body
message_peu_clair(t, generation_ok) ==
    LET message == t.state.dernier_message_utilisateur
        t0 == Log(t, "detect_hors_contexte")
    IN  IF is_hors_contexte[message]
        THEN finish(set_message_ia(t0, Reply("hors_contexte:bis", <<>>)),
                    "hors_contexte_bis")
        ELSE IF "PROMPT_CLARIFICATION" \in PROMPTS /\ generation_ok
        THEN finish(set_message_ia(
                        Log([t0 EXCEPT !.gen_prompt =
                                [name |-> "PROMPT_CLARIFICATION", voyages |-> <<>>]],
                            "ainvoke:clarification:ok"),
                        Reply("llm:clarification", <<>>)), "clarification")
        ELSE IF "PROMPT_CLARIFICATION" \in PROMPTS
        THEN finish(set_message_ia(
                        Log([t0 EXCEPT !.gen_prompt =
                                [name |-> "PROMPT_CLARIFICATION", voyages |-> <<>>]],
                            "ainvoke:clarification:fail"),
                        Reply("secours:clarification", <<>>)), "clarification")
        ELSE finish(set_message_ia(Log(t0, "NameError"),
                                   Reply("secours:clarification", <<>>)),
                    "clarification")

\* mutant: the search marks the offers it proposes as accessible
recherche_marks_offers(t) ==
    LET found == search_voyages(VOYAGES, t.state.criteres)
        voyages_matches ==
            [i \in 1..Len(found) |-> [found[i] EXCEPT !.acces_handicap = PyTrue]]
    IN  [Log(t, "match_voyage") EXCEPT
            !.state.voyages_proposes = voyages_matches,
            !.state.derniers_voyages_proposes =
                IF voyages_matches # <<>> THEN voyages_matches ELSE @]

\* mutant: the search keeps the offers proposed before next to the new matches
recherche_keeps_previous(t) ==
    LET found == search_voyages(VOYAGES, t.state.criteres)
        voyages_matches ==
            found \o SelectSeq(t.state.voyages_proposes,
                               LAMBDA v : \A i \in 1..Len(found) : found[i] # v)
    IN  [Log(t, "match_voyage") EXCEPT
            !.state.voyages_proposes = voyages_matches,
            !.state.derniers_voyages_proposes =
                IF voyages_matches # <<>> THEN voyages_matches ELSE @]

\* mutant: the saved proposals are overwritten by every search, empty results included
recherche_saves_always(t) ==
    LET voyages_matches == search_voyages(VOYAGES, t.state.criteres)
    IN  [Log(t, "match_voyage") EXCEPT
            !.state.voyages_proposes = voyages_matches,
            !.state.derniers_voyages_proposes = voyages_matches]

\* PHASE 5
recherche(t) ==
    LET voyages_matches == search_voyages(VOYAGES, t.state.criteres)
    IN  [Log(t, "match_voyage") EXCEPT
            !.state.voyages_proposes = voyages_matches,
            !.state.derniers_voyages_proposes =
                IF voyages_matches # <<>> THEN voyages_matches ELSE @]

\* mutant: the fallback reply drops the proposals of the turn
reponse_secours_clears(t) ==
    LET voyages_matches == t.state.voyages_proposes
    IN  IF voyages_matches # <<>>
        THEN set_message_ia([t EXCEPT !.state.voyages_proposes = <<>>],
                            Reply("secours:avec_voyages", ids(first3(voyages_matches))))
        ELSE set_message_ia(t, Reply("secours:sans_voyages", <<>>))

\* PHASE 6 except branch
reponse_secours(t) ==
    LET voyages_matches == t.state.voyages_proposes
    IN  IF voyages_matches # <<>>
        THEN set_message_ia(t, Reply("secours:avec_voyages", ids(first3(voyages_matches))))
        ELSE set_message_ia(t, Reply("secours:sans_voyages", <<>>))

\* mutant: the no-match prompt is built from the matched offers, that is from none
generation_without_catalogue(t, gen) ==
    LET voyages_matches == t.state.voyages_proposes
        prompt == IF voyages_matches # <<>>
                  THEN [name |-> "PROMPT_REPONSE_AVEC_VOYAGES",
                        voyages |-> ids(voyages_matches)]
                  ELSE [name |-> "PROMPT_REPONSE_SANS_VOYAGES",
                        voyages |-> ids(voyages_matches)]
        replied ==
            IF gen = "init_fail"
            THEN reponse_secours(Log(t, "init_chat_model:fail"))
            ELSE LET t1 == [Log(t, "init_chat_model:ok") EXCEPT !.gen_prompt = prompt]
                 IN  IF gen = "ok"
                     THEN set_message_ia(
                              Log(t1, "ainvoke:generation:ok"),
                              IF voyages_matches # <<>>
                              THEN Reply("llm:avec_voyages", ids(voyages_matches))
                              ELSE Reply("llm:sans_voyages", ids(VOYAGES)))
                     ELSE reponse_secours(Log(t1, "ainvoke:generation:fail"))
    IN  [finish(replied, IF voyages_matches # <<>> THEN "matched" ELSE "no_match")
            EXCEPT !.state.metadata = @ \cup {"processing_time"}]

\* PHASE 6
generation(t, gen) ==
    LET voyages_matches == t.state.voyages_proposes
        prompt == IF voyages_matches # <<>>
                  THEN [name |-> "PROMPT_REPONSE_AVEC_VOYAGES",
                        voyages |-> ids(voyages_matches)]
                  ELSE [name |-> "PROMPT_REPONSE_SANS_VOYAGES",
                        voyages |-> ids(VOYAGES)]
        replied ==
            IF gen = "init_fail"
            THEN reponse_secours(Log(t, "init_chat_model:fail"))
            ELSE LET t1 == [Log(t, "init_chat_model:ok") EXCEPT !.gen_prompt = prompt]
                 IN  IF gen = "ok"
                     THEN set_message_ia(
                              Log(t1, "ainvoke:generation:ok"),
                              IF voyages_matches # <<>>
                              THEN Reply("llm:avec_voyages", ids(voyages_matches))
                              ELSE Reply("llm:sans_voyages", ids(VOYAGES)))
                     ELSE reponse_secours(Log(t1, "ainvoke:generation:fail"))
    IN  [finish(replied, IF voyages_matches # <<>> THEN "matched" ELSE "no_match")
            EXCEPT !.state.metadata = @ \cup {"processing_time"}]

-----------------------------------------------------------------------------
(* Inputs *)

CriteriaMaps == [CritereSet -> TriState]

With(keys, value) == [k \in Criteres_fields |-> IF k \in keys THEN value ELSE None]

\* extraction results of the authors' scenarios (test_matching_script.py)
ScenarioResponses ==
    { With({"plage", "detente"}, PyTrue),
      With({"plage", "montagne"}, PyTrue),
      With({"plage", "montagne", "sport"}, PyTrue) }

\* answers of the extraction collaborator: an instance of Criteres with nothing
\* set, with one criterion set to True or to False, or one of the scenarios' answers
ExtractionResponses ==
    {With({}, None)}
    \cup {With({k}, v) : k \in Criteres_fields, v \in PyBool}
    \cup ScenarioResponses

\* the structured-output call returns an instance or raises
ExtractionOutcomes ==
    {[ok |-> FALSE, criteres_response |-> criteres_default]}
    \cup {[ok |-> TRUE, criteres_response |-> r] : r \in ExtractionResponses}

\* PHASE 6: init_chat_model raises, ainvoke raises, or a response comes back
GenerationOutcomes == {"init_fail", "fail", "ok"}

-----------------------------------------------------------------------------
(* Conversation: the caller builds the input, the graph runs process_message *)

Init ==
    /\ state = StateDefault
    /\ VOYAGES = VOYAGES_INIT
    /\ pc = "idle"
    /\ turns = 0
    /\ branch = ""
    /\ trace = <<>>
    /\ ia_writes = 0
    /\ raised = FALSE
    /\ gen_prompt = NoPrompt
    /\ extracted = criteres_default
    /\ test_criteres = criteres_default
    /\ test_matches = <<>>
    /\ test_pc = "off"
    /\ test_message = <<>>
    /\ test_tag = ""

call_reset ==
    /\ branch' = ""
    /\ trace' = <<>>
    /\ ia_writes' = 0
    /\ raised' = FALSE
    /\ gen_prompt' = NoPrompt
    /\ extracted' = criteres_default

\* graph.ainvoke(State(dernier_message_utilisateur=msg)): every field from the defaults
ainvoke_state(msg) ==
    /\ pc = "idle"
    /\ turns < MaxTurns
    /\ state' = [StateDefault EXCEPT !.dernier_message_utilisateur = msg]
    /\ pc' = "ready"
    /\ turns' = turns + 1
    /\ call_reset
    /\ UNCHANGED <<VOYAGES, test_criteres, test_matches, test_pc, test_message, test_tag>>

\* graph.ainvoke({"dernier_message_utilisateur": msg}) on a thread whose state is kept
ainvoke_update(msg) ==
    /\ pc = "idle"
    /\ turns < MaxTurns
    /\ state' = [state EXCEPT !.dernier_message_utilisateur = msg]
    /\ pc' = "ready"
    /\ turns' = turns + 1
    /\ call_reset
    /\ UNCHANGED <<VOYAGES, test_criteres, test_matches, test_pc, test_message, test_tag>>

\* the State object, the branch and the call record a finished call leaves
commit(t) ==
    /\ state' = t.state
    /\ branch' = t.branch
    /\ trace' = t.trace
    /\ ia_writes' = t.ia_writes
    /\ raised' = t.raised
    /\ gen_prompt' = t.gen_prompt
    /\ extracted' = t.extracted

\* mutant: PHASE 4 is skipped, every travel turn goes on to the search
travel_without_phase4(t) ==
    \E ex \in ExtractionOutcomes :
        \E gen \in GenerationOutcomes :
            commit(generation(recherche(extraction(t, ex).t), gen))

\* mutant: a failed extraction call is issued a second time
travel_retry_extraction(t) ==
    \E ex \in ExtractionOutcomes :
        LET first == extraction(t, ex)
            e == IF ex.ok THEN first ELSE extraction(first.t, ex)
        IN  IF ~e.criteres_extraits /\ ~any_critere(e.t.state.criteres)
            THEN \E generation_ok \in BOOLEAN :
                    commit(message_peu_clair(e.t, generation_ok))
            ELSE \E gen \in GenerationOutcomes :
                    commit(generation(recherche(e.t), gen))

\* PHASES 3-6, entered when no earlier check returned
travel(t) ==
    \E ex \in ExtractionOutcomes :
        LET e == extraction(t, ex)
        IN  IF ~e.criteres_extraits /\ ~any_critere(e.t.state.criteres)
            THEN \E generation_ok \in BOOLEAN :
                    commit(message_peu_clair(e.t, generation_ok))
            ELSE \E gen \in GenerationOutcomes :
                    commit(generation(recherche(e.t), gen))

\* mutant: the practical-question check runs before the greeting check
dispatch_question_first(t) ==
    LET message == t.state.dernier_message_utilisateur
        t1 == Log(t, "detect_question_info")
        t2 == Log(t1, "detect_salutation")
        t3 == Log(t2, "detect_hors_contexte")
    IN  IF question_info_of[message] # ""
        THEN commit(question_info(t1, question_info_of[message]))
        ELSE IF is_salutation[message]
        THEN \E generation_ok \in BOOLEAN : commit(salutation(t2, generation_ok))
        ELSE IF is_hors_contexte[message]
        THEN commit(hors_contexte(t3))
        ELSE travel(t3)

\* mutant: PHASE 2.5 is missing, a flagged message falls through to the extraction
dispatch_without_hors_contexte(t) ==
    LET message == t.state.dernier_message_utilisateur
        t1 == Log(t, "detect_salutation")
        t2 == Log(t1, "detect_question_info")
    IN  IF is_salutation[message]
        THEN \E generation_ok \in BOOLEAN : commit(salutation(t1, generation_ok))
        ELSE IF question_info_of[message] # ""
        THEN commit(question_info(t2, question_info_of[message]))
        ELSE travel(t2)

\* mutant: an affirmation re-emits the saved proposals before any other check
dispatch_confirmation_shortcut(t) ==
    LET message == t.state.dernier_message_utilisateur
        t1 == Log(t, "detect_salutation")
        t2 == Log(t1, "detect_question_info")
        t3 == Log(t2, "detect_hors_contexte")
    IN  IF message = MsgOui /\ t.state.derniers_voyages_proposes # <<>>
        THEN commit(finish(set_message_ia(t,
                 Reply("secours:avec_voyages", ids(t.state.derniers_voyages_proposes))),
                 "matched"))
        ELSE IF is_salutation[message]
        THEN \E generation_ok \in BOOLEAN : commit(salutation(t1, generation_ok))
        ELSE IF question_info_of[message] # ""
        THEN commit(question_info(t2, question_info_of[message]))
        ELSE IF is_hors_contexte[message]
        THEN commit(hors_contexte(t3))
        ELSE travel(t3)

\* mutant: PHASE 2.5 tests "message and detect_hors_contexte(message)"
dispatch_empty_passes(t) ==
    LET message == t.state.dernier_message_utilisateur
        t1 == Log(t, "detect_salutation")
        t2 == Log(t1, "detect_question_info")
        t3 == Log(t2, "detect_hors_contexte")
    IN  IF is_salutation[message]
        THEN \E generation_ok \in BOOLEAN : commit(salutation(t1, generation_ok))
        ELSE IF question_info_of[message] # ""
        THEN commit(question_info(t2, question_info_of[message]))
        ELSE IF message # <<>> /\ is_hors_contexte[message]
        THEN commit(hors_contexte(t3))
        ELSE travel(t3)

dispatch(t) ==
    LET message == t.state.dernier_message_utilisateur
        t1 == Log(t, "detect_salutation")
        t2 == Log(t1, "detect_question_info")
        t3 == Log(t2, "detect_hors_contexte")
    IN  IF is_salutation[message]
        THEN \E generation_ok \in BOOLEAN : commit(salutation(t1, generation_ok))
        ELSE IF question_info_of[message] # ""
        THEN commit(question_info(t2, question_info_of[message]))
        ELSE IF is_hors_contexte[message]
        THEN commit(hors_contexte(t3))
        ELSE travel(t3)

process_message ==
    /\ pc = "ready"
    /\ LET t == [state |-> state, branch |-> "", trace |-> <<>>, ia_writes |-> 0,
                 raised |-> FALSE, gen_prompt |-> NoPrompt,
                 extracted |-> criteres_default]
       IN  \E init_ok \in BOOLEAN :
              IF init_ok
              THEN dispatch(Log(t, "init_chat_model:ok"))
              ELSE commit(init_failure(Log(t, "init_chat_model:fail")))
    /\ pc' = "idle"
    /\ UNCHANGED <<VOYAGES, turns, test_criteres, test_matches, test_pc,
                   test_message, test_tag>>

Next ==
    \/ \E msg \in Messages : ainvoke_state(msg)
    \/ \E msg \in Messages : ainvoke_update(msg)
    \/ process_message

Spec == Init /\ [][Next]_vars

-----------------------------------------------------------------------------
(* test_matching_script.py: the matcher applied to a criteria dict *)

MatchInit ==
    /\ state = StateDefault
    /\ VOYAGES = VOYAGES_INIT
    /\ pc = "idle"
    /\ turns = 0
    /\ branch = ""
    /\ trace = <<>>
    /\ ia_writes = 0
    /\ raised = FALSE
    /\ gen_prompt = NoPrompt
    /\ extracted = criteres_default
    /\ test_criteres \in CriteriaMaps
    /\ test_matches = <<>>
    /\ test_pc = "start"
    /\ test_message = <<>>
    /\ test_tag = ""

\* for i, voyage in enumerate(VOYAGES, 1): if match_voyage(voyage, criteres): ...
test_matching ==
    /\ test_pc = "start"
    /\ test_matches' = search_voyages(VOYAGES, test_criteres)
    /\ test_pc' = "done"
    /\ UNCHANGED <<state, VOYAGES, pc, turns, branch, trace, ia_writes, raised,
                   gen_prompt, extracted, test_criteres, test_message, test_tag>>

MatchNext == test_matching

MatchSpec == MatchInit /\ [][MatchNext]_vars

-----------------------------------------------------------------------------
(* The question classifier applied to a message, as at the head of PHASE 2.3 *)

\* words the messages of the harness are made of: keywords of each of the
\* lists of detect_question_info, a word no list holds, and a word that holds
\* the keyword "cher" inside it
WordPrix == <<"p", "r", "i", "x">>  \* "prix"
WordCombien == <<"C", "o", "m", "b", "i", "e", "n">>  \* "Combien"
WordQuand == <<"q", "u", "a", "n", "d">>  \* "quand"
WordReserver == <<"r", "é", "s", "e", "r", "v", "e", "r">>  \* "réserver"
WordInformation == <<"i", "n", "f", "o", "r", "m", "a", "t", "i", "o", "n">>  \* "information"
WordPlage == <<"p", "l", "a", "g", "e">>  \* "plage"
WordCherche == <<"c", "h", "e", "r", "c", "h", "e">>  \* "cherche"

Words == {WordPrix, WordCombien, WordQuand, WordReserver, WordInformation, WordPlage, WordCherche}

\* " ".join(ws)
RECURSIVE join(_)
join(ws) ==
    IF ws = <<>> THEN <<>>
    ELSE IF Len(ws) = 1 THEN ws[1]
    ELSE ws[1] \o <<" ">> \o join(Tail(ws))

\* the empty message and every message of at most MaxWords words
ClassifierMessages == {join(ws) : ws \in UNION {[1..n -> Words] : n \in 0..MaxWords}}

ClassifyInit ==
    /\ state = StateDefault
    /\ VOYAGES = VOYAGES_INIT
    /\ pc = "idle"
    /\ turns = 0
    /\ branch = ""
    /\ trace = <<>>
    /\ ia_writes = 0
    /\ raised = FALSE
    /\ gen_prompt = NoPrompt
    /\ extracted = criteres_default
    /\ test_criteres = criteres_default
    /\ test_matches = <<>>
    /\ test_pc = "classify"
    /\ test_message \in ClassifierMessages
    /\ test_tag = ""

\* question_type = detect_question_info(message)
classify ==
    /\ test_pc = "classify"
    /\ test_tag' = detect_question_info(test_message)
    /\ test_pc' = "classified"
    /\ UNCHANGED <<state, VOYAGES, pc, turns, branch, trace, ia_writes, raised,
                   gen_prompt, extracted, test_criteres, test_matches, test_message>>

ClassifyNext == classify

ClassifySpec == ClassifyInit /\ [][ClassifyNext]_vars

-----------------------------------------------------------------------------
(* Vocabulary of the properties *)

Range(seq) == {seq[i] : i \in 1..Len(seq)}

\* the declarative matching rule: every known criterion equals the offer's flag
Satisfies(voyage, criteres) ==
    \A k \in CritereSet : criteres[k] \in PyBool => voyage[k] = criteres[k]

\* the catalog offers that satisfy the criteria, in catalog order
Matching(criteres) == SelectSeq(VOYAGES, LAMBDA v : Satisfies(v, criteres))

TravelBranches == {"clarification", "hors_contexte_bis", "matched", "no_match"}
MatchingBranches == {"matched", "no_match"}
NonTravelBranches == {"init_failure", "salutation", "question_info", "hors_contexte"}

\* a process_message call has just returned
Returned == pc = "idle" /\ turns > 0

\* this step is a process_message call
IsCall == pc = "ready" /\ pc' = "idle"

Has(e) == \E i \in 1..Len(trace) : trace[i] = e

ExtractionCalled == Has("ainvoke:extraction:ok") \/ Has("ainvoke:extraction:fail")

Checks(tr) == SelectSeq(tr, LAMBDA e : e \in {"detect_salutation", "detect_question_info",
                                             "detect_hors_contexte"})

\* the working map of the turn once the extraction answer is applied to the prior map
AfterExtraction(prior, answer) ==
    [k \in CritereSet |-> IF answer[k] # None THEN answer[k] ELSE prior[k]]

Geo == {"plage", "montagne", "ville"}

-----------------------------------------------------------------------------
(* C1 *)

\* C1: for every catalog offer and every criteria map over the six keys,
\* match_voyage and _match return true iff every key whose criteria value is
\* True or False carries that value on the offer; None keys impose nothing.
\* The list test_matching returns holds exactly those offers.
C1_MatchIffKnownCriteriaEqual ==
    \A i \in 1..Len(VOYAGES) :
        /\ match_voyage(VOYAGES[i], test_criteres) <=> Satisfies(VOYAGES[i], test_criteres)
        /\ _match(VOYAGES[i], test_criteres) <=> Satisfies(VOYAGES[i], test_criteres)
        /\ test_pc = "done" =>
              (VOYAGES[i] \in Range(test_matches) <=> Satisfies(VOYAGES[i], test_criteres))

\* TEST 3 of the script: a map mixing True, False and None selects two of five offers
C1_Witness ==
    /\ test_pc = "done"
    /\ test_criteres = [plage |-> PyFalse, montagne |-> PyTrue, ville |-> PyFalse,
                        sport |-> PyTrue, detente |-> PyFalse, acces_handicap |-> None]
    /\ ids(test_matches) = <<"LOZ-001", "CHAM-SKI">>

-----------------------------------------------------------------------------
(* C2 *)

\* closed affirmation / negation set of the confirmation shortcut the claim describes
Confirmations == {MsgOui}

\* the branch the claimed dispatcher order selects
ClaimedBranch(s) ==
    LET message == s.dernier_message_utilisateur
    IN  IF s.derniers_voyages_proposes # <<>> /\ message \in Confirmations
        THEN "confirmation"
        ELSE IF is_salutation[message] THEN "salutation"
        ELSE IF question_info_of[message] # "" THEN "question_info"
        ELSE IF is_hors_contexte[message] THEN "hors_contexte"
        ELSE "travel"

BranchClass(b) == IF b \in TravelBranches THEN "travel" ELSE b

\* C2 as claimed: the branch of a call whose model initialisation succeeded is
\* the first match in the order confirmation/negation shortcut (eligible when a
\* last proposed offer is recorded), greeting, practical question, off-topic,
\* default extraction.
C2_Original ==
    [][(IsCall /\ branch' # "init_failure")
          => BranchClass(branch') = ClaimedBranch(state)]_vars

\* the branch and the checks evaluated, in the order of the code
CodeBranch(message) ==
    IF is_salutation[message] THEN "salutation"
    ELSE IF question_info_of[message] # "" THEN "question_info"
    ELSE IF is_hors_contexte[message] THEN "hors_contexte"
    ELSE "travel"

ChecksOf(b) ==
    CASE b = "init_failure" -> <<>>
      [] b = "salutation" -> <<"detect_salutation">>
      [] b = "question_info" -> <<"detect_salutation", "detect_question_info">>
      [] OTHER -> <<"detect_salutation", "detect_question_info", "detect_hors_contexte">>

\* C2 (amended): every call takes exactly one branch: the model-initialisation
\* failure exit, else the first match in the order greeting, practical
\* question, off-topic, default extraction; the checks evaluated before the
\* branch is taken are exactly those up to the first match, and a non-travel
\* branch evaluates nothing after it.  There is no confirmation shortcut.
C2_FirstMatchWins ==
    Returned =>
        /\ branch \in NonTravelBranches \cup TravelBranches
        /\ branch = "init_failure" <=> trace[1] = "init_chat_model:fail"
        /\ branch # "init_failure" =>
              BranchClass(branch) = CodeBranch(state.dernier_message_utilisateur)
        /\ LET prefix == ChecksOf(branch)
           IN  /\ Len(Checks(trace)) >= Len(prefix)
               /\ SubSeq(Checks(trace), 1, Len(prefix)) = prefix
               /\ branch \in NonTravelBranches => Checks(trace) = prefix

\* a message that is both a greeting and a practical question takes the greeting branch
C2_Witness ==
    /\ Returned
    /\ state.dernier_message_utilisateur = MsgMerciPrix
    /\ branch = "salutation"
    /\ Checks(trace) = <<"detect_salutation">>
    /\ question_info_of[MsgMerciPrix] = "prix"

-----------------------------------------------------------------------------
(* C3 *)

\* C3 as claimed: after a travel-intent turn every key the extraction of the
\* turn left unknown is unknown in the criteria map.
C3_Original ==
    (Returned /\ branch \in TravelBranches) =>
        \A k \in CritereSet : extracted[k] = None => state.criteres[k] = None

\* C3 (amended): a travel-intent turn starts from the criteria map carried in
\* the prior state: a key the extraction of the turn leaves unknown keeps its
\* prior value, a key it returns True or False for takes that value.
C3_ExtractionUpdatesPriorMap ==
    [][(IsCall /\ branch' \in TravelBranches)
          => state'.criteres = AfterExtraction(state.criteres, extracted')]_vars

\* a criterion known at the end of a travel turn that the turn did not extract
C3_Witness ==
    /\ Returned
    /\ branch \in MatchingBranches
    /\ Has("ainvoke:extraction:ok")
    /\ \E k \in CritereSet : extracted[k] = None /\ state.criteres[k] # None
    /\ \E k \in CritereSet : extracted[k] # None

-----------------------------------------------------------------------------
(* C4 *)

\* C4: every call returns with done set and exactly one reply written,
\* whatever the outcome of model initialisation, extraction and generation;
\* no exception leaves process_message.
C4_TurnAlwaysCompletes ==
    Returned => /\ state.done
                /\ ia_writes = 1
                /\ ~raised
                /\ state.dernier_message_ia.kind # ""

\* extraction failed and generation failed in the same call
C4_Witness ==
    /\ Returned
    /\ Has("ainvoke:extraction:fail")
    /\ Has("ainvoke:generation:fail")
    /\ state.done
    /\ state.dernier_message_ia.kind = "secours:avec_voyages"

-----------------------------------------------------------------------------
(* C5 *)

\* C5 as claimed: a non-travel turn invokes neither the extraction
\* collaborator nor the catalog matcher.
C5_Original ==
    (Returned /\ branch \in NonTravelBranches) =>
        ~ExtractionCalled /\ ~Has("match_voyage")

\* C5 (amended): a non-travel turn never invokes the extraction collaborator;
\* the greeting, off-topic and initialisation-failure exits never invoke the
\* matcher; the practical-question branch invokes it exactly when the state
\* holds no proposals (current or saved) and at least one criterion is known.
C5_NonTravelBypass ==
    (Returned /\ branch \in NonTravelBranches) =>
        /\ ~ExtractionCalled
        /\ Has("match_voyage") <=>
              /\ branch = "question_info"
              /\ state.voyages_proposes = <<>>
              /\ state.derniers_voyages_proposes = <<>>
              /\ any_critere(state.criteres)

\* a practical question asked while criteria are known and nothing is proposed
C5_Witness ==
    /\ Returned
    /\ branch = "question_info"
    /\ Has("match_voyage")
    /\ ~ExtractionCalled

-----------------------------------------------------------------------------
(* C6 *)

\* scoring keys of the claim; the code's offers carry no tags, so the second key is 0
ScoreTrue(v, criteres) ==
    Cardinality({k \in CritereSet : criteres[k] = PyTrue /\ v[k] = PyTrue})
ScoreAcces(v, criteres) ==
    IF criteres["acces_handicap"] = PyTrue /\ v["acces_handicap"] = PyTrue THEN 1 ELSE 0
Better(v, w, criteres) ==
    \/ ScoreTrue(v, criteres) > ScoreTrue(w, criteres)
    \/ /\ ScoreTrue(v, criteres) = ScoreTrue(w, criteres)
       /\ ScoreAcces(v, criteres) > ScoreAcces(w, criteres)

-----------------------------------------------------------------------------
(* C7 *)

\* C7: when the extraction answer has exactly one of plage, montagne, ville
\* True, the criteria map used for matching has the other two False; with
\* zero or several True, the three keys are as the extraction step left them.
C7_GeographicExclusivity ==
    [][(IsCall /\ branch' \in MatchingBranches)
          => LET m == AfterExtraction(state.criteres, extracted')
                 geoTrue == {k \in Geo : extracted'[k] = PyTrue}
             IN  IF Cardinality(geoTrue) = 1
                 THEN \A k \in Geo \ geoTrue : state'.criteres[k] = PyFalse
                 ELSE \A k \in Geo : state'.criteres[k] = m[k]]_vars

-----------------------------------------------------------------------------
(* C8 *)

\* C8: if after extraction sport is True and detente is not True, the map
\* used for matching has detente False, and symmetrically; acces_handicap is
\* never changed by an exclusivity rule.
C8_ActivityExclusivity ==
    [][(IsCall /\ branch' \in MatchingBranches)
          => LET m == AfterExtraction(state.criteres, extracted')
             IN  /\ (m["sport"] = PyTrue /\ m["detente"] # PyTrue)
                        => state'.criteres["detente"] = PyFalse
                 /\ (m["detente"] = PyTrue /\ m["sport"] # PyTrue)
                        => state'.criteres["sport"] = PyFalse
                 /\ state'.criteres["acces_handicap"] = m["acces_handicap"]]_vars

-----------------------------------------------------------------------------
(* C9 *)

\* C9: after any sequence of turns the criteria map has exactly the six keys
\* plage, montagne, ville, sport, detente, acces_handicap, each True, False or None.
C9_SixKeysTriState ==
    /\ DOMAIN state.criteres = CritereSet
    /\ \A k \in DOMAIN state.criteres : state.criteres[k] \in TriState

\* a map updated by two extractions in a row
C9_Witness ==
    /\ Returned
    /\ turns = 2
    /\ Has("ainvoke:extraction:ok")
    /\ Cardinality({k \in CritereSet : extracted[k] # None}) > 0
    /\ Cardinality({k \in CritereSet : state.criteres[k] # None})
           > Cardinality({k \in CritereSet : extracted[k] # None})

-----------------------------------------------------------------------------
(* C10 *)

\* C10: with the six criteria None, match_voyage returns true for each of the
\* five catalog offers and test_matching returns the whole catalog.
C10_MatcherTotality ==
    test_criteres = criteres_default =>
        /\ Len(VOYAGES) = 5
        /\ \A i \in 1..Len(VOYAGES) : match_voyage(VOYAGES[i], test_criteres)
        /\ test_pc = "done" => test_matches = VOYAGES

\* TEST 8 of the script has run
C10_Witness ==
    /\ test_pc = "done"
    /\ test_criteres = criteres_default
    /\ Len(test_matches) = 5

-----------------------------------------------------------------------------
(* C11 *)

AllUnknown(criteres) == \A k \in DOMAIN criteres : criteres[k] = None

\* C11: whenever the criteria map is all-unknown once the extraction step of
\* a turn is over, the turn takes the clarification branch, the matcher is not
\* invoked in the turn and the proposals list at the end of the turn is empty.
C11_AllUnknownClarifies ==
    [][(IsCall /\ branch' \in TravelBranches
           /\ AllUnknown(AfterExtraction(state.criteres, extracted')))
          => /\ branch' = "clarification"
             /\ ~\E i \in 1..Len(trace') : trace'[i] = "match_voyage"
             /\ state'.voyages_proposes = <<>>]_vars

\* a later turn of a kept conversation whose extraction answered with nothing set
C11_Witness ==
    /\ Returned
    /\ turns >= 2
    /\ branch = "clarification"
    /\ Has("ainvoke:extraction:ok")
    /\ AllUnknown(state.criteres)
    /\ state.voyages_proposes = <<>>

-----------------------------------------------------------------------------
(* C12 *)

\* C12 as claimed: a turn that takes the off-topic branch ends with every
\* criterion unknown.
C12_Original ==
    (Returned /\ branch = "hors_contexte") => AllUnknown(state.criteres)

\* C12 (amended): a turn that takes the off-topic branch leaves the criteria
\* map, the proposals and the saved proposals as the prior state held them.
C12_OffTopicKeepsCriteria ==
    [][(IsCall /\ branch' = "hors_contexte")
          => /\ state'.criteres = state.criteres
             /\ state'.voyages_proposes = state.voyages_proposes
             /\ state'.derniers_voyages_proposes = state.derniers_voyages_proposes]_vars

\* an off-topic turn that ends with a criterion of an earlier turn still known
C12_Witness ==
    /\ Returned
    /\ branch = "hors_contexte"
    /\ ~AllUnknown(state.criteres)

-----------------------------------------------------------------------------
(* C13 *)

\* messages the off-topic heuristic flags that are neither greeting nor practical question
OffTopicOnly ==
    {m \in Messages : is_hors_contexte[m] /\ ~is_salutation[m] /\ question_info_of[m] = ""}

\* C13 as claimed: a turn on "srrrrzzzhdj", or on any other message that only
\* the off-topic heuristic flags, is classified off-topic with no extraction
\* call made, gets the fixed off-topic reply and ends with no proposals.
C13_Original ==
    /\ MsgCharabia \in OffTopicOnly
    /\ (Returned /\ state.dernier_message_utilisateur \in OffTopicOnly) =>
          /\ branch = "hors_contexte"
          /\ ~ExtractionCalled
          /\ state.dernier_message_ia = Reply("hors_contexte", <<>>)
          /\ state.voyages_proposes = <<>>

\* C13 (amended): "srrrrzzzhdj" is flagged by the off-topic heuristic only.  A
\* turn on such a message makes no extraction call and no matcher call; when
\* the model initialises it is classified off-topic and gets the fixed
\* off-topic reply, otherwise it ends with the technical-error reply before
\* any classification; either way the proposals are those of the prior state.
C13_OffTopicBeforeExtraction ==
    /\ MsgCharabia \in OffTopicOnly
    /\ [][(IsCall /\ state.dernier_message_utilisateur \in OffTopicOnly)
            => /\ ~\E i \in 1..Len(trace') :
                     trace'[i] \in {"ainvoke:extraction:ok", "ainvoke:extraction:fail",
                                    "match_voyage"}
               /\ IF trace'[1] = "init_chat_model:ok"
                  THEN /\ branch' = "hors_contexte"
                       /\ trace'[Len(trace')] = "detect_hors_contexte"
                       /\ state'.dernier_message_ia = Reply("hors_contexte", <<>>)
                  ELSE /\ branch' = "init_failure"
                       /\ Checks(trace') = <<>>
                       /\ state'.dernier_message_ia = Reply("erreur_technique", <<>>)
               /\ state'.voyages_proposes = state.voyages_proposes
               /\ state'.derniers_voyages_proposes = state.derniers_voyages_proposes]_vars

\* "srrrrzzzhdj" sent in a kept conversation that holds proposals
C13_Witness ==
    /\ Returned
    /\ state.dernier_message_utilisateur = MsgCharabia
    /\ branch = "hors_contexte"
    /\ state.dernier_message_ia = Reply("hors_contexte", <<>>)
    /\ state.voyages_proposes # <<>>

-----------------------------------------------------------------------------
(* C14 *)

\* the prior state of this call holds exactly one proposal and the message is "oui"
OuiAfterSingleMatch ==
    /\ IsCall
    /\ state.dernier_message_utilisateur = MsgOui
    /\ Len(state.voyages_proposes) = 1
    /\ state.derniers_voyages_proposes = state.voyages_proposes

\* C14 as claimed: a turn in which exactly one offer matches records that
\* offer as the last proposed one, and an affirmation ("oui") in the next turn
\* re-emits that offer from the record with no extraction call and no matcher
\* call.
C14_Original ==
    /\ [](Returned /\ branch = "matched" /\ Len(state.voyages_proposes) = 1
            => state.derniers_voyages_proposes = state.voyages_proposes)
    /\ [][OuiAfterSingleMatch
            => /\ ~\E i \in 1..Len(trace') :
                     trace'[i] \in {"ainvoke:extraction:ok", "ainvoke:extraction:fail",
                                    "match_voyage"}
               /\ state'.dernier_message_ia.voyages = ids(state.derniers_voyages_proposes)
               /\ state'.voyages_proposes = state.voyages_proposes]_vars

\* C14 (amended): a turn in which exactly one offer matches leaves that offer
\* as the single element of the proposals and of the saved proposals.  "oui"
\* in the next turn is handled as any travel message: when the model
\* initialises, the extraction collaborator is called once, the matcher runs
\* on the criteria so updated, and the proposals are the offers matching them,
\* which need not be the offer proposed before.
C14_OuiIsExtracted ==
    /\ [](Returned /\ branch = "matched" /\ Len(state.voyages_proposes) = 1
            => state.derniers_voyages_proposes = state.voyages_proposes)
    /\ [][(OuiAfterSingleMatch /\ trace'[1] = "init_chat_model:ok")
            => /\ \E i \in 1..Len(trace') :
                     trace'[i] \in {"ainvoke:extraction:ok", "ainvoke:extraction:fail"}
               /\ \E i \in 1..Len(trace') : trace'[i] = "match_voyage"
               /\ branch' \in MatchingBranches
               /\ state'.criteres = AfterExtraction(state.criteres, extracted')
               /\ state'.voyages_proposes = Matching(state'.criteres)]_vars

\* "oui" after a single match, answered by an extraction that changes the proposals
C14_Witness ==
    /\ Returned
    /\ turns >= 2
    /\ state.dernier_message_utilisateur = MsgOui
    /\ Has("ainvoke:extraction:ok")
    /\ Has("match_voyage")
    /\ Len(Matching([k \in CritereSet |->
                        IF extracted[k] # None THEN None ELSE state.criteres[k]])) = 1
    /\ Len(state.voyages_proposes) # 1

-----------------------------------------------------------------------------
(* C15 *)

\* C15: on "Je veux la plage et me détendre", with the extraction answering
\* plage and detente True and nothing else, the criteria map used for matching
\* has montagne, ville and sport False, and the only offer proposed is PAL-001,
\* the offer flagged plage, ville and detente.
C15_ScenarioPlageDetente ==
    [][(/\ IsCall
        /\ state.dernier_message_utilisateur = MsgPlageDetente
        /\ state.criteres = criteres_default
        /\ \E i \in 1..Len(trace') : trace'[i] = "ainvoke:extraction:ok"
        /\ extracted' = With({"plage", "detente"}, PyTrue))
          => /\ state'.criteres = [plage |-> PyTrue, montagne |-> PyFalse,
                                   ville |-> PyFalse, sport |-> PyFalse,
                                   detente |-> PyTrue, acces_handicap |-> None]
             /\ ids(state'.voyages_proposes) = <<"PAL-001">>
             /\ \E i \in 1..Len(VOYAGES) :
                   /\ VOYAGES[i].id = "PAL-001"
                   /\ VOYAGES[i].plage = PyTrue
                   /\ VOYAGES[i].ville = PyTrue
                   /\ VOYAGES[i].detente = PyTrue]_vars

-----------------------------------------------------------------------------
(* C16 *)

GenerationCalled == Has("ainvoke:generation:ok") \/ Has("ainvoke:generation:fail")

\* the contradictory maps of the scenario: TEST 6 of the script, with and without sport
ContradictoryMaps ==
    {[criteres_default EXCEPT !["montagne"] = PyTrue, !["plage"] = PyTrue],
     [criteres_default EXCEPT !["montagne"] = PyTrue, !["plage"] = PyTrue,
                              !["sport"] = PyTrue]}

\* C16: with montagne and plage True (the other keys unknown, or sport True
\* too) no catalog offer matches; a turn that searches with such a map takes
\* the no-match branch with an empty proposals list, and the input of the
\* generation call it issues lists the five catalog offers.
C16_ContradictionNoMatch ==
    /\ \A c \in ContradictoryMaps : \A i \in 1..Len(VOYAGES) : ~match_voyage(VOYAGES[i], c)
    /\ (Returned /\ Has("match_voyage") /\ branch \in TravelBranches
           /\ state.criteres \in ContradictoryMaps) =>
          /\ branch = "no_match"
          /\ state.voyages_proposes = <<>>
          /\ GenerationCalled =>
                /\ gen_prompt.name = "PROMPT_REPONSE_SANS_VOYAGES"
                /\ gen_prompt.voyages = ids(VOYAGES)
                /\ Len(gen_prompt.voyages) = 5

\* the scenario on a fresh state, generation answering
C16_Witness ==
    /\ Returned
    /\ turns = 1
    /\ state.criteres = [criteres_default EXCEPT !["montagne"] = PyTrue, !["plage"] = PyTrue]
    /\ branch = "no_match"
    /\ Has("ainvoke:generation:ok")
    /\ gen_prompt.voyages = <<"LOZ-001", "CHAM-SPA", "CHAM-SKI", "PAL-001", "CAMP-LUX">>
    /\ state.voyages_proposes = <<>>

-----------------------------------------------------------------------------
(* C17 *)

ExtractionEvents == {"ainvoke:extraction:ok", "ainvoke:extraction:fail"}

\* calls of the text-generating collaborator, whatever the prompt
GenerationEvents ==
    {"ainvoke:generation:ok", "ainvoke:generation:fail",
     "ainvoke:salutation:ok", "ainvoke:salutation:fail",
     "ainvoke:clarification:ok", "ainvoke:clarification:fail"}

Count(tr, events) == Len(SelectSeq(tr, LAMBDA e : e \in events))

\* C17: in every turn at most one extraction call and at most one generation
\* call are issued, so at most two collaborator calls and none repeated after a
\* failure; when both occur the extraction call has returned or failed before
\* the generation call is issued.
C17_AtMostTwoCalls ==
    Returned =>
        /\ Count(trace, ExtractionEvents) <= 1
        /\ Count(trace, GenerationEvents) <= 1
        /\ Count(trace, ExtractionEvents \cup GenerationEvents) <= 2
        /\ \A i, j \in 1..Len(trace) :
              (trace[i] \in ExtractionEvents /\ trace[j] \in GenerationEvents) => i < j

\* a turn with both calls, the extraction failing and the generation answering
C17_Witness ==
    /\ Returned
    /\ Count(trace, ExtractionEvents \cup GenerationEvents) = 2
    /\ Has("ainvoke:extraction:fail")
    /\ Has("ainvoke:generation:ok")

-----------------------------------------------------------------------------
(* C18 *)

\* what a travel turn leaves when it learns nothing: the prior map, and either
\* the clarification exit or a search with the prior map
NothingExtracted(s) ==
    LET m == Matching(s.criteres)
    IN  IF AllUnknown(s.criteres)
        THEN [criteres |-> s.criteres, voyages_proposes |-> s.voyages_proposes,
              derniers_voyages_proposes |-> s.derniers_voyages_proposes,
              branch |-> "clarification"]
        ELSE [criteres |-> s.criteres, voyages_proposes |-> m,
              derniers_voyages_proposes |->
                  IF m # <<>> THEN m ELSE s.derniers_voyages_proposes,
              branch |-> IF m # <<>> THEN "matched" ELSE "no_match"]

TurnOutcome(s, b) ==
    [criteres |-> s.criteres, voyages_proposes |-> s.voyages_proposes,
     derniers_voyages_proposes |-> s.derniers_voyages_proposes, branch |-> b]

\* this step is a turn whose extraction call failed
ExtractionFailed ==
    IsCall /\ \E i \in 1..Len(trace') : trace'[i] = "ainvoke:extraction:fail"

\* this step is a turn whose extraction call answered with the six values unknown
ExtractionEmpty ==
    /\ IsCall
    /\ \E i \in 1..Len(trace') : trace'[i] = "ainvoke:extraction:ok"
    /\ AllUnknown(extracted')

\* C18 as claimed: a turn whose extraction call fails ends with the criteria
\* map, proposals, branch and error indication of a turn on the same prior
\* state whose extraction answered with the six values unknown.
C18_Original ==
    [][/\ ExtractionEmpty =>
             /\ TurnOutcome(state', branch') = NothingExtracted(state)
             /\ state'.erreur_ia = state.erreur_ia
       /\ ExtractionFailed =>
             /\ TurnOutcome(state', branch') = NothingExtracted(state)
             /\ state'.erreur_ia = state.erreur_ia]_vars

\* C18 (amended): a turn whose extraction call fails ends with the criteria
\* map, proposals and branch of a turn on the same prior state whose
\* extraction answered with the six values unknown (clarification when no
\* criterion is known, a search with the prior map otherwise); it differs in
\* the error indication, which the failure sets and the empty answer leaves
\* as it was.
C18_FailureIsNothingExtracted ==
    [][/\ ExtractionEmpty =>
             /\ TurnOutcome(state', branch') = NothingExtracted(state)
             /\ state'.erreur_ia = state.erreur_ia
       /\ ExtractionFailed =>
             /\ TurnOutcome(state', branch') = NothingExtracted(state)
             /\ state'.erreur_ia = TRUE]_vars

\* a failed extraction in a kept conversation that goes on to match the prior criteria
C18_Witness ==
    /\ Returned
    /\ turns >= 2
    /\ Has("ainvoke:extraction:fail")
    /\ branch = "matched"
    /\ state.erreur_ia
    /\ state.voyages_proposes = Matching(state.criteres)

-----------------------------------------------------------------------------
(* C19 *)

\* the generation of PHASE 6 failed: its model did not initialise or its call raised
GenerationFailed(tr) ==
    \/ \E i \in 1..Len(tr) : tr[i] = "ainvoke:generation:fail"
    \/ \E i \in 2..Len(tr) : tr[i] = "init_chat_model:fail"

GenerationSucceeded(tr) == \E i \in 1..Len(tr) : tr[i] = "ainvoke:generation:ok"

\* the part of the state a matching turn computes before PHASE 6
SearchResult(s, answer) ==
    LET c == AfterExtraction(s.criteres, answer)
        m == Matching(c)
    IN  [criteres |-> c, voyages_proposes |-> m,
         derniers_voyages_proposes |-> IF m # <<>> THEN m ELSE s.derniers_voyages_proposes]

StateResult(s) ==
    [criteres |-> s.criteres, voyages_proposes |-> s.voyages_proposes,
     derniers_voyages_proposes |-> s.derniers_voyages_proposes]

\* C19: when the generation fails in the matched or no-match branch, the reply
\* is the local template of the branch (the names of at most three of the
\* matched offers held in the state, or the fixed no-match text), and the
\* criteria map and the proposals are those a successful generation leaves.
C19_GenerationFallback ==
    [][(IsCall /\ branch' \in MatchingBranches)
          => /\ GenerationFailed(trace') \/ GenerationSucceeded(trace')
             /\ StateResult(state') = SearchResult(state, extracted')
             /\ GenerationFailed(trace') =>
                   /\ ~GenerationSucceeded(trace')
                   /\ state'.dernier_message_ia =
                         IF branch' = "matched"
                         THEN Reply("secours:avec_voyages",
                                    ids(first3(state'.voyages_proposes)))
                         ELSE Reply("secours:sans_voyages", <<>>)]_vars

\* generation failed after more than three offers matched
C19_Witness ==
    /\ Returned
    /\ branch = "matched"
    /\ Has("ainvoke:generation:fail")
    /\ Len(state.voyages_proposes) > 3
    /\ state.dernier_message_ia =
          Reply("secours:avec_voyages", ids(first3(state.voyages_proposes)))

-----------------------------------------------------------------------------
(* C20 *)

\* assignments to state fields made while the call runs, apart from the reply and done
SetEvents == {"set:criteres", "set:erreur_ia"}

\* events that occur only once PHASE 4 has chosen between clarification and search
DecidedEvents ==
    {"NameError", "ainvoke:clarification:ok", "ainvoke:clarification:fail", "match_voyage"}

ProposalReplies == {"llm:avec_voyages", "secours:avec_voyages"}

\* the reply kinds each branch writes
RepliesOf(b) ==
    CASE b = "init_failure" -> {"erreur_technique"}
      [] b = "salutation" -> {"llm:salutation", "secours:salutation"}
      [] b = "question_info" -> {"prix", "date", "reservation", "contact",
                                 "prix:sans_voyage", "info:sans_voyage"}
      [] b = "hors_contexte" -> {"hors_contexte"}
      [] b = "hors_contexte_bis" -> {"hors_contexte:bis"}
      [] b = "clarification" -> {"llm:clarification", "secours:clarification"}
      [] b = "matched" -> ProposalReplies
      [] b = "no_match" -> {"llm:sans_voyages", "secours:sans_voyages"}
      [] OTHER -> {}

\* C20 as claimed: a turn ends with proposals held exactly when its reply is
\* the one presenting them, and no state field is assigned before the branch
\* of the turn is known.
C20_Original ==
    Returned =>
        /\ state.voyages_proposes # <<>> <=> state.dernier_message_ia.kind \in ProposalReplies
        /\ \A i \in 1..Len(trace) :
              trace[i] \in SetEvents => \E j \in 1..(i - 1) : trace[j] \in DecidedEvents

\* C20 (amended): every turn ends with the reply of the branch it took.  A
\* turn that searches stores the proposals before the reply is written and
\* ends with proposals held exactly when its reply presents them; every other
\* turn leaves the proposals of earlier turns in place next to its own reply.
\* The criteria map and the error flag are assigned during extraction, before
\* the choice between clarification and search; no other field is assigned
\* before the branch is known, and a non-travel turn does not touch the
\* criteria.
C20_BranchWrites ==
    /\ [](Returned =>
            /\ state.dernier_message_ia.kind \in RepliesOf(branch)
            /\ branch \in MatchingBranches =>
                  /\ state.voyages_proposes # <<>>
                        <=> state.dernier_message_ia.kind \in ProposalReplies
                  /\ state.dernier_message_ia.kind = "llm:avec_voyages" =>
                        state.dernier_message_ia.voyages = ids(state.voyages_proposes)
                  /\ state.dernier_message_ia.kind = "secours:avec_voyages" =>
                        state.dernier_message_ia.voyages = ids(first3(state.voyages_proposes))
            /\ \A i \in 1..Len(trace) : \A j \in 1..Len(trace) :
                  (trace[i] \in SetEvents /\ trace[j] \in DecidedEvents) => i < j
            /\ branch \in NonTravelBranches => ~\E i \in 1..Len(trace) : trace[i] \in SetEvents)
    /\ [][(IsCall /\ branch' \notin MatchingBranches)
            => /\ state'.voyages_proposes = state.voyages_proposes
               /\ state'.derniers_voyages_proposes = state.derniers_voyages_proposes]_vars
    /\ [][(IsCall /\ branch' \in NonTravelBranches)
            => state'.criteres = state.criteres]_vars

\* a greeting turn that ends with the proposals of an earlier turn still held
C20_Witness ==
    /\ Returned
    /\ branch = "salutation"
    /\ state.voyages_proposes # <<>>
    /\ state.dernier_message_ia.kind \in RepliesOf("salutation")

-----------------------------------------------------------------------------
(* C21 *)

InTrace(tr, e) == \E i \in 1..Len(tr) : tr[i] = e

\* C21 as claimed: a failed extraction call and a failed generation call are
\* the only failure outcomes: no turn ends with the technical-error reply, and
\* the error flag is raised only in a turn where one of the two calls failed.
C21_Original ==
    /\ [](Returned => state.dernier_message_ia.kind # "erreur_technique")
    /\ [][(IsCall /\ state'.erreur_ia /\ ~state.erreur_ia)
            => \/ InTrace(trace', "ainvoke:extraction:fail")
               \/ GenerationFailed(trace')
               \/ InTrace(trace', "ainvoke:salutation:fail")]_vars

\* C21 (amended): a turn has three failure outcomes.  When the model does not
\* initialise, the turn ends at once with the technical-error reply and the
\* error flag raised; a failed extraction call raises the error flag and the
\* turn goes on; a failed generation call yields the fallback reply of the
\* branch and raises no flag.  Nothing else produces the technical-error reply
\* or raises the flag.
C21_ThreeFailureOutcomes ==
    /\ [](Returned =>
            /\ state.dernier_message_ia.kind = "erreur_technique"
                  <=> trace[1] = "init_chat_model:fail"
            /\ trace[1] = "init_chat_model:fail" =>
                  /\ Len(trace) = 1
                  /\ state.erreur_ia
            /\ InTrace(trace, "ainvoke:extraction:fail") => state.erreur_ia)
    /\ [][(IsCall /\ state'.erreur_ia /\ ~state.erreur_ia)
            => \/ trace'[1] = "init_chat_model:fail"
               \/ InTrace(trace', "ainvoke:extraction:fail")]_vars
    /\ [][(IsCall /\ trace'[1] = "init_chat_model:ok"
              /\ ~InTrace(trace', "ainvoke:extraction:fail"))
            => state'.erreur_ia = state.erreur_ia]_vars

\* the model did not initialise: technical-error reply and flag, nothing else called
C21_Witness ==
    /\ Returned
    /\ trace = <<"init_chat_model:fail">>
    /\ state.dernier_message_ia = Reply("erreur_technique", <<>>)
    /\ state.erreur_ia
    /\ state.dernier_message_utilisateur = MsgPlageDetente

-----------------------------------------------------------------------------
(* C22 *)

-----------------------------------------------------------------------------
(* C23 *)

\* C23: in the clarification branch the generation collaborator is called
\* with a clarification prompt; the reply is its text when the call succeeds,
\* and the fixed clarification template only when the call fails.
C23_ClarificationCallsCollaborator ==
    (Returned /\ branch = "clarification") =>
        /\ Has("ainvoke:clarification:ok") \/ Has("ainvoke:clarification:fail")
        /\ gen_prompt.name \in PROMPTS
        /\ Has("ainvoke:clarification:ok") =>
              state.dernier_message_ia = Reply("llm:clarification", <<>>)
        /\ state.dernier_message_ia = Reply("secours:clarification", <<>>) =>
              Has("ainvoke:clarification:fail")

-----------------------------------------------------------------------------
(* C24 *)

\* the message holds a keyword of the list, as a substring of its lowered, stripped text
HoldsKeyword(message, mots) ==
    \E j \in 1..Len(mots) :
        \E i \in 1..Len(message) :
            /\ i + Len(mots[j]) - 1 <= Len(message)
            /\ \A k \in 1..Len(mots[j]) : lower_char(message[i + k - 1]) = mots[j][k]

\* C24 as claimed: the tag is that of the first list, in the order price,
\* date, booking, of which the message holds a keyword, and a message holding
\* no keyword of these lists is not a practical question.
C24_Original ==
    test_pc = "classified" =>
        test_tag = IF HoldsKeyword(test_message, mots_prix) THEN "prix"
                   ELSE IF HoldsKeyword(test_message, mots_date) THEN "date"
                   ELSE IF HoldsKeyword(test_message, mots_reservation) THEN "reservation"
                   ELSE ""

\* C24 (amended): the tag is that of the first list, in the order price,
\* date, booking, general information, of which the message holds a keyword;
\* a message holding keywords of several lists gets the tag of the earliest,
\* and only a message holding no keyword of the four lists is not a practical
\* question.
C24_FirstKeywordListWins ==
    test_pc = "classified" =>
        test_tag = IF HoldsKeyword(test_message, mots_prix) THEN "prix"
                   ELSE IF HoldsKeyword(test_message, mots_date) THEN "date"
                   ELSE IF HoldsKeyword(test_message, mots_reservation) THEN "reservation"
                   ELSE IF HoldsKeyword(test_message, mots_info) THEN "info"
                   ELSE ""

\* a date keyword followed by a price keyword is tagged as a price question
C24_Witness ==
    /\ test_pc = "classified"
    /\ test_message = join(<<WordQuand, WordPrix>>)
    /\ HoldsKeyword(test_message, mots_date)
    /\ test_tag = "prix"

-----------------------------------------------------------------------------
(* C25 *)

\* C25: in every state reached from the fresh default state, the proposals
\* list is empty or is the list of all catalog offers that match the criteria
\* map of that state, in catalog order; so every proposed offer matches the
\* criteria held with it.
C25_ProposalsMatchCriteria ==
    /\ \/ state.voyages_proposes = <<>>
       \/ state.voyages_proposes = Matching(state.criteres)
    /\ \A i \in 1..Len(state.voyages_proposes) :
          match_voyage(state.voyages_proposes[i], state.criteres)

\* a later turn narrowed the criteria and the proposals followed
C25_Witness ==
    /\ Returned
    /\ turns >= 2
    /\ branch = "matched"
    /\ Has("set:criteres")
    /\ Cardinality({k \in CritereSet : state.criteres[k] # None}) >= 2
    /\ Len(state.voyages_proposes) = 2
    /\ state.voyages_proposes = Matching(state.criteres)

-----------------------------------------------------------------------------
(* C26 *)

\* C26: no call of process_message changes a criterion from True or False to
\* None: extraction overwrites only the keys it answered True or False for,
\* so the set of known criteria never shrinks over the turns on a state and a
\* known value can only change to the other boolean.
C26_KnownStaysKnown ==
    [][IsCall =>
          \A k \in CritereSet :
              /\ state.criteres[k] # None => state'.criteres[k] \in PyBool
              /\ state'.criteres[k] # state.criteres[k] => state'.criteres[k] = extracted'[k]
              /\ extracted'[k] = None => state'.criteres[k] = state.criteres[k]]_vars

\* an extraction that answered nothing, on a state where a criterion is known
C26_Witness ==
    /\ Returned
    /\ turns >= 2
    /\ Has("ainvoke:extraction:ok")
    /\ AllUnknown(extracted)
    /\ ~AllUnknown(state.criteres)

-----------------------------------------------------------------------------
(* C27 *)

\* C27: a turn that takes the greeting branch, the practical-question branch
\* or the model-initialisation-failure exit leaves criteres, voyages_proposes
\* and derniers_voyages_proposes as the prior state held them, also when the
\* practical-question branch searches the catalog itself.
C27_FrameOfNonTravelExits ==
    [][(IsCall /\ branch' \in {"salutation", "question_info", "init_failure"})
          => StateResult(state') = StateResult(state)]_vars

\* a practical question that searched the catalog and stored nothing
C27_Witness ==
    /\ Returned
    /\ branch = "question_info"
    /\ Has("match_voyage")
    /\ ~AllUnknown(state.criteres)
    /\ state.voyages_proposes = <<>>
    /\ state.derniers_voyages_proposes = <<>>

-----------------------------------------------------------------------------
(* C28 *)

\* C28: process_message writes derniers_voyages_proposes only in a matching
\* turn with at least one match, where it becomes that turn's
\* voyages_proposes; once non-empty it is never emptied by a later turn on
\* the state, and a no-match turn leaves it as it was while voyages_proposes
\* becomes empty.
C28_SavedProposals ==
    [][IsCall =>
          /\ state'.derniers_voyages_proposes # state.derniers_voyages_proposes
                => branch' = "matched"
          /\ branch' = "matched" =>
                /\ state'.voyages_proposes # <<>>
                /\ state'.derniers_voyages_proposes = state'.voyages_proposes
          /\ state.derniers_voyages_proposes # <<>>
                => state'.derniers_voyages_proposes # <<>>
          /\ branch' = "no_match" =>
                /\ state'.voyages_proposes = <<>>
                /\ state'.derniers_voyages_proposes = state.derniers_voyages_proposes]_vars

\* a no-match turn after a matched one: nothing proposed, the earlier offers still saved
C28_Witness ==
    /\ Returned
    /\ branch = "no_match"
    /\ state.voyages_proposes = <<>>
    /\ state.derniers_voyages_proposes # <<>>

-----------------------------------------------------------------------------
(* C29 *)

\* C29: process_message changes erreur_ia only from False to True, and only
\* in a turn where the model did not initialise or the extraction call
\* failed; a state whose flag is True keeps it True through every later turn,
\* turns in which every call succeeds included.
C29_ErrorFlagSticks ==
    [][IsCall =>
          /\ state.erreur_ia => state'.erreur_ia
          /\ state'.erreur_ia # state.erreur_ia =>
                /\ state'.erreur_ia = TRUE
                /\ \/ trace' = <<"init_chat_model:fail">>
                   \/ InTrace(trace', "ainvoke:extraction:fail")
          /\ (trace' = <<"init_chat_model:fail">> \/ InTrace(trace', "ainvoke:extraction:fail"))
                => state'.erreur_ia]_vars

\* a turn in which both collaborator calls succeeded ends with the flag of an earlier turn
C29_Witness ==
    /\ Returned
    /\ turns >= 2
    /\ state.erreur_ia
    /\ trace[1] = "init_chat_model:ok"
    /\ Has("ainvoke:extraction:ok")
    /\ Has("ainvoke:generation:ok")

-----------------------------------------------------------------------------
(* C30 *)

\* C30: the off-topic check gives the same answer each time it is applied to
\* the message of a turn and has ended the turn when that answer is true, the
\* empty message included; so a turn that goes past it always makes the
\* extraction call, never gets the second off-topic reply, and takes the
\* clarification path whenever it reaches the no-criteria branch.
C30_SecondOffTopicUnreachable ==
    /\ is_hors_contexte[MsgVide]
    /\ Returned =>
          /\ branch # "hors_contexte_bis"
          /\ state.dernier_message_ia.kind # "hors_contexte:bis"
          /\ branch \in TravelBranches =>
                /\ state.dernier_message_utilisateur # <<>>
                /\ ~is_hors_contexte[state.dernier_message_utilisateur]
                /\ ExtractionCalled
                /\ ~Has("match_voyage") => branch = "clarification"
          /\ (branch \notin {"init_failure", "salutation", "question_info"}
                 /\ is_hors_contexte[state.dernier_message_utilisateur])
                => /\ branch = "hors_contexte"
                   /\ Count(trace, {"detect_hors_contexte"}) = 1

\* a clarification turn: the check was applied three times and was false each time
C30_Witness ==
    /\ Returned
    /\ branch = "clarification"
    /\ Count(trace, {"detect_hors_contexte"}) = 3
    /\ ExtractionCalled
    /\ state.dernier_message_ia.kind = "secours:clarification"

-----------------------------------------------------------------------------

====
